---- MODULE Spec2Model ----
(***************************************************************************)
(* A model of fetch_inventory.py: the price parser, the inventory          *)
(* resolver, the valuation chain of one account and the run that appends   *)
(* the history rows.                                                       *)
(*                                                                         *)
(* Representation of values.                                               *)
(*  - A text is a sequence of one-character strings; Python's None is the  *)
(*    value None (a sequence no text can be).                              *)
(*  - The float parse_price returns is kept as the exact decimal it was    *)
(*    read from: [m |-> digits, e |-> number of fractional digits], with   *)
(*    trailing zeros removed, so that equal records are equal floats.      *)
(*  - In the run, amounts that enter round(x, 2) are counted in eighths    *)
(*    of a currency unit (0.125): eighths, their products with integer     *)
(*    quantities and their sums are exact in binary floating point, so     *)
(*    round() sees exactly the number the model holds.  Amounts that come  *)
(*    out of round(x, 2) are counted in hundredths.                        *)
(***************************************************************************)
EXTENDS Integers, Sequences, FiniteSets, TLC

VARIABLES
    p_text,      \* parse_price: the argument `text`
    p_raw,       \* parse_price: m.group(1), or None when nothing matched
    p_result,    \* parse_price: the value returned (Zero before the call)
    inv_json,    \* get_item_counts: the argument
    counts,      \* get_item_counts: the dict returned (empty before the call)
    pc,          \* main: where the script is
    today,       \* main: dt.date.today()
    sid_idx,     \* main: index in STEAM_IDS of the account of the loop
    per_account, \* main: the list of (sid, val)
    pending,     \* compute_value_via_market: the names still to price
    qty_of,      \* compute_value_via_market: counts of the account
    total,       \* compute_value_via_market: the running total (eighths)
    values_csv,  \* the file values.csv
    accounts_csv,\* the file accounts.csv
    runs,        \* number of times the script was started
    trace,       \* what the environment answered for the account of the loop
    requests,    \* per item name, the price requests of this run that got
                 \* an HTTP answer other than 429
    failed       \* the accounts of this run whose resolution raised

vars == <<p_text, p_raw, p_result, inv_json, counts, pc, today, sid_idx,
          per_account, pending, qty_of, total, values_csv, accounts_csv,
          runs, trace, requests, failed>>

parseVars == <<p_text, p_raw, p_result>>
countVars == <<inv_json, counts>>

None == <<"None">>

(***************************************************************************)
(* Small helpers on sequences.                                             *)
(***************************************************************************)
\* The sequences over S of length at most n.
SeqsUpTo(S, n) == UNION {[1..k -> S] : k \in 0..n}

Contains(s, c) == \E i \in 1..Len(s) : s[i] = c

RECURSIVE Pow10(_)
Pow10(n) == IF n = 0 THEN 1 ELSE 10 * Pow10(n - 1)

(***************************************************************************)
(* parse_price                                                             *)
(***************************************************************************)
\* \d in PRICE_RE, a str pattern compiled without re.ASCII: the decimal digits
\* of every script (Unicode category Nd, Unicode 14.0.0), one row per script
\* from its zero to its nine.  A character outside ASCII is written by its
\* code point: "U+0663" is the one character ARABIC-INDIC DIGIT THREE.
DecimalDigits == <<
    <<"0", "1", "2", "3", "4", "5", "6", "7", "8", "9">>,
    <<"U+0660", "U+0661", "U+0662", "U+0663", "U+0664", "U+0665", "U+0666", "U+0667", "U+0668", "U+0669">>,
    <<"U+06F0", "U+06F1", "U+06F2", "U+06F3", "U+06F4", "U+06F5", "U+06F6", "U+06F7", "U+06F8", "U+06F9">>,
    <<"U+07C0", "U+07C1", "U+07C2", "U+07C3", "U+07C4", "U+07C5", "U+07C6", "U+07C7", "U+07C8", "U+07C9">>,
    <<"U+0966", "U+0967", "U+0968", "U+0969", "U+096A", "U+096B", "U+096C", "U+096D", "U+096E", "U+096F">>,
    <<"U+09E6", "U+09E7", "U+09E8", "U+09E9", "U+09EA", "U+09EB", "U+09EC", "U+09ED", "U+09EE", "U+09EF">>,
    <<"U+0A66", "U+0A67", "U+0A68", "U+0A69", "U+0A6A", "U+0A6B", "U+0A6C", "U+0A6D", "U+0A6E", "U+0A6F">>,
    <<"U+0AE6", "U+0AE7", "U+0AE8", "U+0AE9", "U+0AEA", "U+0AEB", "U+0AEC", "U+0AED", "U+0AEE", "U+0AEF">>,
    <<"U+0B66", "U+0B67", "U+0B68", "U+0B69", "U+0B6A", "U+0B6B", "U+0B6C", "U+0B6D", "U+0B6E", "U+0B6F">>,
    <<"U+0BE6", "U+0BE7", "U+0BE8", "U+0BE9", "U+0BEA", "U+0BEB", "U+0BEC", "U+0BED", "U+0BEE", "U+0BEF">>,
    <<"U+0C66", "U+0C67", "U+0C68", "U+0C69", "U+0C6A", "U+0C6B", "U+0C6C", "U+0C6D", "U+0C6E", "U+0C6F">>,
    <<"U+0CE6", "U+0CE7", "U+0CE8", "U+0CE9", "U+0CEA", "U+0CEB", "U+0CEC", "U+0CED", "U+0CEE", "U+0CEF">>,
    <<"U+0D66", "U+0D67", "U+0D68", "U+0D69", "U+0D6A", "U+0D6B", "U+0D6C", "U+0D6D", "U+0D6E", "U+0D6F">>,
    <<"U+0DE6", "U+0DE7", "U+0DE8", "U+0DE9", "U+0DEA", "U+0DEB", "U+0DEC", "U+0DED", "U+0DEE", "U+0DEF">>,
    <<"U+0E50", "U+0E51", "U+0E52", "U+0E53", "U+0E54", "U+0E55", "U+0E56", "U+0E57", "U+0E58", "U+0E59">>,
    <<"U+0ED0", "U+0ED1", "U+0ED2", "U+0ED3", "U+0ED4", "U+0ED5", "U+0ED6", "U+0ED7", "U+0ED8", "U+0ED9">>,
    <<"U+0F20", "U+0F21", "U+0F22", "U+0F23", "U+0F24", "U+0F25", "U+0F26", "U+0F27", "U+0F28", "U+0F29">>,
    <<"U+1040", "U+1041", "U+1042", "U+1043", "U+1044", "U+1045", "U+1046", "U+1047", "U+1048", "U+1049">>,
    <<"U+1090", "U+1091", "U+1092", "U+1093", "U+1094", "U+1095", "U+1096", "U+1097", "U+1098", "U+1099">>,
    <<"U+17E0", "U+17E1", "U+17E2", "U+17E3", "U+17E4", "U+17E5", "U+17E6", "U+17E7", "U+17E8", "U+17E9">>,
    <<"U+1810", "U+1811", "U+1812", "U+1813", "U+1814", "U+1815", "U+1816", "U+1817", "U+1818", "U+1819">>,
    <<"U+1946", "U+1947", "U+1948", "U+1949", "U+194A", "U+194B", "U+194C", "U+194D", "U+194E", "U+194F">>,
    <<"U+19D0", "U+19D1", "U+19D2", "U+19D3", "U+19D4", "U+19D5", "U+19D6", "U+19D7", "U+19D8", "U+19D9">>,
    <<"U+1A80", "U+1A81", "U+1A82", "U+1A83", "U+1A84", "U+1A85", "U+1A86", "U+1A87", "U+1A88", "U+1A89">>,
    <<"U+1A90", "U+1A91", "U+1A92", "U+1A93", "U+1A94", "U+1A95", "U+1A96", "U+1A97", "U+1A98", "U+1A99">>,
    <<"U+1B50", "U+1B51", "U+1B52", "U+1B53", "U+1B54", "U+1B55", "U+1B56", "U+1B57", "U+1B58", "U+1B59">>,
    <<"U+1BB0", "U+1BB1", "U+1BB2", "U+1BB3", "U+1BB4", "U+1BB5", "U+1BB6", "U+1BB7", "U+1BB8", "U+1BB9">>,
    <<"U+1C40", "U+1C41", "U+1C42", "U+1C43", "U+1C44", "U+1C45", "U+1C46", "U+1C47", "U+1C48", "U+1C49">>,
    <<"U+1C50", "U+1C51", "U+1C52", "U+1C53", "U+1C54", "U+1C55", "U+1C56", "U+1C57", "U+1C58", "U+1C59">>,
    <<"U+A620", "U+A621", "U+A622", "U+A623", "U+A624", "U+A625", "U+A626", "U+A627", "U+A628", "U+A629">>,
    <<"U+A8D0", "U+A8D1", "U+A8D2", "U+A8D3", "U+A8D4", "U+A8D5", "U+A8D6", "U+A8D7", "U+A8D8", "U+A8D9">>,
    <<"U+A900", "U+A901", "U+A902", "U+A903", "U+A904", "U+A905", "U+A906", "U+A907", "U+A908", "U+A909">>,
    <<"U+A9D0", "U+A9D1", "U+A9D2", "U+A9D3", "U+A9D4", "U+A9D5", "U+A9D6", "U+A9D7", "U+A9D8", "U+A9D9">>,
    <<"U+A9F0", "U+A9F1", "U+A9F2", "U+A9F3", "U+A9F4", "U+A9F5", "U+A9F6", "U+A9F7", "U+A9F8", "U+A9F9">>,
    <<"U+AA50", "U+AA51", "U+AA52", "U+AA53", "U+AA54", "U+AA55", "U+AA56", "U+AA57", "U+AA58", "U+AA59">>,
    <<"U+ABF0", "U+ABF1", "U+ABF2", "U+ABF3", "U+ABF4", "U+ABF5", "U+ABF6", "U+ABF7", "U+ABF8", "U+ABF9">>,
    <<"U+FF10", "U+FF11", "U+FF12", "U+FF13", "U+FF14", "U+FF15", "U+FF16", "U+FF17", "U+FF18", "U+FF19">>,
    <<"U+104A0", "U+104A1", "U+104A2", "U+104A3", "U+104A4", "U+104A5", "U+104A6", "U+104A7", "U+104A8", "U+104A9">>,
    <<"U+10D30", "U+10D31", "U+10D32", "U+10D33", "U+10D34", "U+10D35", "U+10D36", "U+10D37", "U+10D38", "U+10D39">>,
    <<"U+11066", "U+11067", "U+11068", "U+11069", "U+1106A", "U+1106B", "U+1106C", "U+1106D", "U+1106E", "U+1106F">>,
    <<"U+110F0", "U+110F1", "U+110F2", "U+110F3", "U+110F4", "U+110F5", "U+110F6", "U+110F7", "U+110F8", "U+110F9">>,
    <<"U+11136", "U+11137", "U+11138", "U+11139", "U+1113A", "U+1113B", "U+1113C", "U+1113D", "U+1113E", "U+1113F">>,
    <<"U+111D0", "U+111D1", "U+111D2", "U+111D3", "U+111D4", "U+111D5", "U+111D6", "U+111D7", "U+111D8", "U+111D9">>,
    <<"U+112F0", "U+112F1", "U+112F2", "U+112F3", "U+112F4", "U+112F5", "U+112F6", "U+112F7", "U+112F8", "U+112F9">>,
    <<"U+11450", "U+11451", "U+11452", "U+11453", "U+11454", "U+11455", "U+11456", "U+11457", "U+11458", "U+11459">>,
    <<"U+114D0", "U+114D1", "U+114D2", "U+114D3", "U+114D4", "U+114D5", "U+114D6", "U+114D7", "U+114D8", "U+114D9">>,
    <<"U+11650", "U+11651", "U+11652", "U+11653", "U+11654", "U+11655", "U+11656", "U+11657", "U+11658", "U+11659">>,
    <<"U+116C0", "U+116C1", "U+116C2", "U+116C3", "U+116C4", "U+116C5", "U+116C6", "U+116C7", "U+116C8", "U+116C9">>,
    <<"U+11730", "U+11731", "U+11732", "U+11733", "U+11734", "U+11735", "U+11736", "U+11737", "U+11738", "U+11739">>,
    <<"U+118E0", "U+118E1", "U+118E2", "U+118E3", "U+118E4", "U+118E5", "U+118E6", "U+118E7", "U+118E8", "U+118E9">>,
    <<"U+11950", "U+11951", "U+11952", "U+11953", "U+11954", "U+11955", "U+11956", "U+11957", "U+11958", "U+11959">>,
    <<"U+11C50", "U+11C51", "U+11C52", "U+11C53", "U+11C54", "U+11C55", "U+11C56", "U+11C57", "U+11C58", "U+11C59">>,
    <<"U+11D50", "U+11D51", "U+11D52", "U+11D53", "U+11D54", "U+11D55", "U+11D56", "U+11D57", "U+11D58", "U+11D59">>,
    <<"U+11DA0", "U+11DA1", "U+11DA2", "U+11DA3", "U+11DA4", "U+11DA5", "U+11DA6", "U+11DA7", "U+11DA8", "U+11DA9">>,
    <<"U+16A60", "U+16A61", "U+16A62", "U+16A63", "U+16A64", "U+16A65", "U+16A66", "U+16A67", "U+16A68", "U+16A69">>,
    <<"U+16AC0", "U+16AC1", "U+16AC2", "U+16AC3", "U+16AC4", "U+16AC5", "U+16AC6", "U+16AC7", "U+16AC8", "U+16AC9">>,
    <<"U+16B50", "U+16B51", "U+16B52", "U+16B53", "U+16B54", "U+16B55", "U+16B56", "U+16B57", "U+16B58", "U+16B59">>,
    <<"U+1D7CE", "U+1D7CF", "U+1D7D0", "U+1D7D1", "U+1D7D2", "U+1D7D3", "U+1D7D4", "U+1D7D5", "U+1D7D6", "U+1D7D7">>,
    <<"U+1D7D8", "U+1D7D9", "U+1D7DA", "U+1D7DB", "U+1D7DC", "U+1D7DD", "U+1D7DE", "U+1D7DF", "U+1D7E0", "U+1D7E1">>,
    <<"U+1D7E2", "U+1D7E3", "U+1D7E4", "U+1D7E5", "U+1D7E6", "U+1D7E7", "U+1D7E8", "U+1D7E9", "U+1D7EA", "U+1D7EB">>,
    <<"U+1D7EC", "U+1D7ED", "U+1D7EE", "U+1D7EF", "U+1D7F0", "U+1D7F1", "U+1D7F2", "U+1D7F3", "U+1D7F4", "U+1D7F5">>,
    <<"U+1D7F6", "U+1D7F7", "U+1D7F8", "U+1D7F9", "U+1D7FA", "U+1D7FB", "U+1D7FC", "U+1D7FD", "U+1D7FE", "U+1D7FF">>,
    <<"U+1E140", "U+1E141", "U+1E142", "U+1E143", "U+1E144", "U+1E145", "U+1E146", "U+1E147", "U+1E148", "U+1E149">>,
    <<"U+1E2F0", "U+1E2F1", "U+1E2F2", "U+1E2F3", "U+1E2F4", "U+1E2F5", "U+1E2F6", "U+1E2F7", "U+1E2F8", "U+1E2F9">>,
    <<"U+1E950", "U+1E951", "U+1E952", "U+1E953", "U+1E954", "U+1E955", "U+1E956", "U+1E957", "U+1E958", "U+1E959">>,
    <<"U+1FBF0", "U+1FBF1", "U+1FBF2", "U+1FBF3", "U+1FBF4", "U+1FBF5", "U+1FBF6", "U+1FBF7", "U+1FBF8", "U+1FBF9">> >>

DigitChars == {DecimalDigits[r][v] : r \in DOMAIN DecimalDigits, v \in 1..10}

\* The value float() gives the digit c.
DigitVal(c) ==
    CHOOSE v \in 0..9 : \E r \in DOMAIN DecimalDigits : DecimalDigits[r][v + 1] = c

IsDigit(c) == c \in DigitChars
IsSep(c) == c \in {".", ","}

\* A decimal m / 10^e without trailing zeros in the fraction.
RECURSIVE Dec(_, _)
Dec(m, e) == IF e > 0 /\ m % 10 = 0 THEN Dec(m \div 10, e - 1) ELSE [m |-> m, e |-> e]

Zero == Dec(0, 0)

\* Line 41: U+202F (written "NNBSP") made a space, then every space removed.
StripSpaces(text) == SelectSeq(text, LAMBDA c : c \notin {" ", "NNBSP"})

\* The index after the run of digits that starts at k.
RECURSIVE DigitRunEnd(_, _)
DigitRunEnd(s, k) == IF k <= Len(s) /\ IsDigit(s[k]) THEN DigitRunEnd(s, k + 1) ELSE k

\* PRICE_RE.search(s): group 1 of the leftmost
\* match of \d+[.,]?\d*(?:[.,]\d{2})?, or None.  Every part after \d+ is
\* optional and greedy, so the match is the greedy one from the first digit.
PRICE_RE_search(s) ==
    IF ~ \E i \in 1..Len(s) : IsDigit(s[i]) THEN None
    ELSE LET i  == CHOOSE k \in 1..Len(s) :
                       IsDigit(s[k]) /\ \A j \in 1..(k - 1) : ~ IsDigit(s[j])
             j1 == DigitRunEnd(s, i)
             j2 == IF j1 <= Len(s) /\ IsSep(s[j1]) THEN j1 + 1 ELSE j1
             j3 == DigitRunEnd(s, j2)
             j4 == IF /\ j3 + 2 <= Len(s)
                      /\ IsSep(s[j3])
                      /\ IsDigit(s[j3 + 1])
                      /\ IsDigit(s[j3 + 2])
                   THEN j3 + 3 ELSE j3
         IN SubSeq(s, i, j4 - 1)

Remove(s, c) == SelectSeq(s, LAMBDA x : x # c)
Replace(s, c, d) == [i \in 1..Len(s) |-> IF s[i] = c THEN d ELSE s[i]]

\* A plausible slip: the US convention, ',' groups thousands.
NormalizeSeparatorsUS(raw) == Remove(raw, ",")

\* Lines 46-52: the separators of the token made into float()'s syntax.
NormalizeSeparators(raw) ==
    IF Contains(raw, ".") /\ Contains(raw, ",")
    THEN Replace(Remove(raw, "."), ",", ".")
    ELSE IF Contains(raw, ",") /\ ~ Contains(raw, ".")
         THEN Replace(raw, ",", ".")
         ELSE raw

RECURSIVE DigitsVal(_)
DigitsVal(ds) ==
    IF ds = <<>> THEN 0
    ELSE 10 * DigitsVal(SubSeq(ds, 1, Len(ds) - 1)) + DigitVal(ds[Len(ds)])

\* float(raw) inside try/except ValueError: a string of decimal digits of any
\* script with at most one '.', starting with a digit, is read as written;
\* two or more '.' raise ValueError and the function returns 0.0.
FloatOrZero(raw) ==
    LET dots == {i \in 1..Len(raw) : raw[i] = "."}
    IN IF Cardinality(dots) > 1 THEN Zero
       ELSE IF dots = {} THEN Dec(DigitsVal(raw), 0)
       ELSE LET d == CHOOSE i \in dots : TRUE
            IN Dec(DigitsVal(Remove(raw, ".")), Len(raw) - d)

\* m.group(1) of line 44, None when the function returns before it.
Token(text) ==
    IF text = None \/ text = <<>> THEN None ELSE PRICE_RE_search(StripSpaces(text))

parse_price(text) ==
    IF text = None \/ text = <<>> THEN Zero
    ELSE LET raw == PRICE_RE_search(StripSpaces(text))
         IN IF raw = None THEN Zero
            ELSE FloatOrZero(NormalizeSeparators(raw))

(***************************************************************************)
(* get_item_counts                                                         *)
(*                                                                         *)
(* A description is the JSON object [classid, instanceid,                  *)
(* market_hash_name, other], an asset is [classid, instanceid]; a key the  *)
(* object does not hold is Absent, and `other` says whether the object     *)
(* holds any key besides the three.  The code reads classid and instanceid *)
(* through str() only, so a value stands for its str() (a null for "None") *)
(* and a null market_hash_name for the empty name, which is as falsy.      *)
(* A dict is a sequence of <<key, value>> pairs in insertion order.        *)
(***************************************************************************)
Absent == "<absent>"

DictHas(d, k) == \E i \in 1..Len(d) : d[i][1] = k
DictGet(d, k, default) ==
    IF DictHas(d, k) THEN d[CHOOSE i \in 1..Len(d) : d[i][1] = k][2] ELSE default
\* d[k] = v: an existing key keeps its place, a new one goes last.
DictSet(d, k, v) ==
    IF DictHas(d, k) THEN [i \in 1..Len(d) |-> IF d[i][1] = k THEN <<k, v>> ELSE d[i]]
    ELSE Append(d, <<k, v>>)
DictKeys(d) == [i \in 1..Len(d) |-> d[i][1]]

\* str(x.get("classid")): a missing key gives None, and str(None) is "None".
ClassOf(x) == IF x.classid = Absent THEN "None" ELSE x.classid

\* str(x.get("instanceid", "0"))
InstanceOf(x) == IF x.instanceid = Absent THEN "0" ELSE x.instanceid

\* Lines 67-70: desc_map, filled in input order.
RECURSIVE BuildDescMap(_, _)
BuildDescMap(descriptions, n) ==
    IF n = 0 THEN <<>>
    ELSE DictSet(BuildDescMap(descriptions, n - 1),
                 <<ClassOf(descriptions[n]), InstanceOf(descriptions[n])>>,
                 descriptions[n])

\* d is None: no description, hence no market_hash_name.  The record is also
\* the empty object {}, which the code tells from None nowhere: both are
\* falsy at lines 76 and 79.
NoDesc == [classid |-> Absent, instanceid |-> Absent, market_hash_name |-> Absent,
           other |-> FALSE]

\* bool(d) of lines 76 and 79: None and the object without a key are falsy.
Truthy(d) == d # NoDesc

\* Line 78: next((x for x in descriptions if str(x.classid) == str(key[0])), None)
ClassFallback(descriptions, classid) ==
    LET same == {j \in 1..Len(descriptions) : ClassOf(descriptions[j]) = classid}
    IN IF same = {} THEN NoDesc
       ELSE descriptions[CHOOSE j \in same : \A k \in same : j <= k]

\* Lines 74-79: the market_hash_name of asset a, Absent when d is falsy.
NameOfAsset(inv, a) ==
    LET desc_map == BuildDescMap(inv.descriptions, Len(inv.descriptions))
        key == <<ClassOf(a), InstanceOf(a)>>
        found == DictGet(desc_map, key, NoDesc)
        d == IF Truthy(found) THEN found
             ELSE ClassFallback(inv.descriptions, key[1])
    IN IF Truthy(d) THEN d.market_hash_name ELSE Absent

\* Lines 72-84: the loop over the first n assets.
RECURSIVE CountAssets(_, _)
CountAssets(inv, n) ==
    IF n = 0 THEN <<>>
    ELSE LET sofar == CountAssets(inv, n - 1)
             name == NameOfAsset(inv, inv.assets[n])
         IN IF name = Absent \/ name = "" THEN sofar
            ELSE DictSet(sofar, name, DictGet(sofar, name, 0) + 1)

\* Lines 65-84
get_item_counts(inv) == CountAssets(inv, Len(inv.assets))

(***************************************************************************)
(* Rounding and money                                                      *)
(***************************************************************************)
\* Rounding half up, floor(100 x + 1/2), for x = k eighths.
RoundHalfUp2(k) == (25 * k + 1) \div 2

\* round(x, 2) for x = k eighths, in hundredths.  100 * x = 25 * k / 2 is an
\* integer or lies exactly halfway between two; Python rounds the exact tie
\* of an exactly representable float to the even neighbour.
round2(k) ==
    LET q == (25 * k) \div 2
    IN IF (25 * k) % 2 = 0 THEN q
       ELSE IF q % 2 = 0 THEN q ELSE q + 1

\* The float of a price text, in eighths (the texts of the run are
\* multiples of 0.125).
ToEighths(d) == (d.m * 8) \div Pow10(d.e)

(***************************************************************************)
(* The environment of a run: what the three services may answer.           *)
(***************************************************************************)
NumAccounts == 2
MaxRuns == 2

\* config.json: steam_ids
STEAM_IDS == [i \in 1..NumAccounts |-> i]

\* dt.date.today(), as a day number; the date of a run is not before the
\* date of the run before it
Dates == {1, 2}

ItemNames == {"A", "B"}

\* The description that holds, of the three keys, those not Absent, and no
\* other key; Desc(Absent, Absent, Absent) is {}.
Desc(c, i, n) ==
    [classid |-> c, instanceid |-> i, market_hash_name |-> n, other |-> FALSE]
\* A description with none of the three keys and some other key, as
\* {"name": "x"}.
ForeignDesc ==
    [classid |-> Absent, instanceid |-> Absent, market_hash_name |-> Absent,
     other |-> TRUE]
Asset(c, i) == [classid |-> c, instanceid |-> i]
Inventory(ds, as) == [descriptions |-> ds, assets |-> as]

\* Two descriptions and three assets: two match A by key, one matches B by
\* classid only.
ExampleInventory ==
    Inventory(<<Desc("c1", "0", "A"), Desc("c2", "1", "B")>>,
              <<Asset("c1", Absent), Asset("c1", "0"), Asset("c2", "0")>>)
SingleInventory == Inventory(<<Desc("c1", Absent, "A")>>, <<Asset("c1", "0")>>)
UnnamedInventory ==
    Inventory(<<Desc("c1", "0", ""), Desc("c2", "0", Absent)>>,
              <<Asset("c1", "0"), Asset("c2", "0")>>)
\* A named description and {} under the key of an asset without classid.
EmptyDescInventory ==
    Inventory(<<Desc(Absent, Absent, "A"), Desc(Absent, Absent, Absent)>>,
              <<Asset(Absent, Absent)>>)
\* A description of the class "None" and an asset without classid.
NoneClassInventory ==
    Inventory(<<Desc("None", Absent, "A")>>, <<Asset(Absent, Absent)>>)

\* An answer of a service: kind says how the request ended.
\*   "ConnectionError"  requests.get raised
\*   "HTTPError"        raise_for_status raised (aggregate provider, inventory)
\*   "JSONDecodeError"  r.json() raised
\*   "status"           an HTTP answer with status code `status`
Answer(kind, status, value, lowest, median, body) ==
    [kind |-> kind, status |-> status, value |-> value,
     lowest |-> lowest, median |-> median, body |-> body]

Raises(r) == r.kind \in {"ConnectionError", "HTTPError", "JSONDecodeError"}

NoBody == Inventory(<<>>, <<>>)
ConnectionError == Answer("ConnectionError", 0, 0, None, None, NoBody)
HTTPError == Answer("HTTPError", 500, 0, None, None, NoBody)
JSONDecodeError == Answer("JSONDecodeError", 200, 0, None, None, NoBody)

\* The aggregate provider: {"value": null} and {"value": v}, v in eighths.
NullValue == Answer("null", 200, 0, None, None, NoBody)
Value(v) == Answer("value", 200, v, None, None, NoBody)
AggAnswers ==
    {ConnectionError, HTTPError, JSONDecodeError, NullValue}
        \cup {Value(v) : v \in {-8, 0, 3, 12}}
AggAnswersSmall == {ConnectionError, Value(12)}

\* The inventory endpoint.
InventoryOf(inv) == Answer("status", 200, 0, None, None, inv)
InvAnswers ==
    {ConnectionError, HTTPError, JSONDecodeError}
        \cup {InventoryOf(i) : i \in {ExampleInventory, SingleInventory, UnnamedInventory}}
InvAnswersSmall == {HTTPError, InventoryOf(SingleInventory)}

\* The price endpoint: a status and the JSON fields lowest_price, median_price.
Price(status, lowest, median) == Answer("status", status, 0, lowest, median, NoBody)
PriceTexts ==
    {<<"0", ".", "1", "2", "5">>,        \* 0.125
     <<"1", ",", "5", "€">>,        \* 1,5 euro
     <<"n", "/", "a">>}
PriceAnswers ==
    {ConnectionError, JSONDecodeError,
     Price(429, None, None),
     Price(429, <<"0", ".", "1", "2", "5">>, None),
     Price(500, None, None),
     Price(200, None, None),
     Price(200, <<"0", ".", "1", "2", "5">>, None),
     Price(200, <<>>, <<"1", ",", "5", "€">>),
     Price(200, <<"n", "/", "a">>, <<"1", ",", "5", "€">>)}
PriceAnswersSmall == {Price(429, None, None), Price(200, <<"1", ",", "5", "€">>, None)}

(***************************************************************************)
(* The functions of the valuation chain                                    *)
(***************************************************************************)
\* An Optional[float]: None, or the float v (eighths).
NoFloat == [some |-> FALSE, v |-> 0]
Float(v) == [some |-> TRUE, v |-> v]

\* Lines 98-110: every exception ends in `return None`; a null value too.
try_csgobackpack_value(r) ==
    IF Raises(r) \/ r.kind = "null" THEN NoFloat ELSE Float(r.value)

\* A plausible slip: any value the provider reports is taken.
AcceptAny(v) == v.some

\* A plausible slip: >= where the code has >.
AcceptNonNegative(v) == v.some /\ v.v >= 0

\* Line 129: isinstance(v, float) and v > 0
AcceptAggregate(v) == v.some /\ v.v > 0

\* x or y
Or(x, y) == IF x # None /\ x # <<>> THEN x ELSE y


\* Lines 91-96 (an answer that raises does not get here), in eighths.
priceoverview(r) ==
    IF r.status # 200 THEN 0
    ELSE ToEighths(parse_price(Or(r.lowest, r.median)))

\* A plausible slip: only the exceptions of requests are caught.
CaughtRequestsOnly(r) == r.kind \in {"ConnectionError", "HTTPError"}

\* Line 146: except Exception
Caught(r) == r.kind \in {"ConnectionError", "HTTPError", "JSONDecodeError"}

(***************************************************************************)
(* The history files                                                       *)
(***************************************************************************)
NoFile == [exists |-> FALSE, rows |-> <<>>]
HeaderRow == [kind |-> "header", date |-> 0, sid |-> 0, value |-> 0]
\* [today, sid, val] and [today, total]
AccountRow(d, sid, val) == [kind |-> "row", date |-> d, sid |-> sid, value |-> val]
TotalRow(d, t) == [kind |-> "row", date |-> d, sid |-> 0, value |-> t]

\* A plausible slip: the header is written at every run.
HeaderEveryRun(f) == [exists |-> TRUE, rows |-> Append(f.rows, HeaderRow)]

\* Lines 24-26 and 27-29: the header goes to a file that does not exist.
EnsureHeader(f) ==
    IF f.exists THEN f ELSE [exists |-> TRUE, rows |-> <<HeaderRow>>]

\* A plausible slip: mode "w", which truncates, where the code has "a".
WriteRows(f, new) == [exists |-> TRUE, rows |-> new]

\* Lines 154-157 and 160-161: open(..., "a") and one writerow per row.
AppendRows(f, new) == [exists |-> TRUE, rows |-> f.rows \o new]

RECURSIVE SumValues(_)
\* Line 151: sum(v for _, v in per_account), rounded; a sum of hundredths.
SumValues(pa) == IF pa = <<>> THEN 0 ELSE pa[1][2] + SumValues(Tail(pa))

AccountRows(d, pa) == [i \in 1..Len(pa) |-> AccountRow(d, pa[i][1], pa[i][2])]

(***************************************************************************)
(* main                                                                    *)
(***************************************************************************)
NoTrace == [agg |-> NullValue, agg_calls |-> 0, inv_calls |-> 0,
            plog |-> <<>>, raised |-> FALSE, done |-> FALSE]

\* Lines 139-142: today, ensure_csv_headers(), per_account = []
Start ==
    /\ pc = "start"
    /\ today' \in {d \in Dates : d >= today}
    /\ values_csv' = EnsureHeader(values_csv)
    /\ accounts_csv' = EnsureHeader(accounts_csv)
    /\ per_account' = <<>>
    /\ sid_idx' = 1
    /\ pc' = IF NumAccounts = 0 THEN "write_accounts" ELSE "account"
    /\ UNCHANGED <<pending, qty_of, total, runs, trace, requests, failed>>
    /\ UNCHANGED <<parseVars, countVars>>

\* Line 149 and the loop's next turn: per_account.append((sid, val)).
Finish(val, tr) ==
    /\ per_account' = Append(per_account, <<STEAM_IDS[sid_idx], val>>)
    /\ sid_idx' = sid_idx + 1
    /\ pending' = <<>>
    /\ qty_of' = <<>>
    /\ total' = 0
    /\ trace' = [tr EXCEPT !.done = TRUE]
    /\ failed' = IF tr.raised THEN failed \cup {STEAM_IDS[sid_idx]} ELSE failed
    /\ pc' = IF sid_idx = NumAccounts THEN "write_accounts" ELSE "account"

\* An exception leaves get_value_for_account: lines 146-148, or the script
\* ends on it.
Raise(r, tr) ==
    IF Caught(r) THEN Finish(0, [tr EXCEPT !.raised = TRUE])
    ELSE /\ pc' = "aborted"
         /\ trace' = [tr EXCEPT !.raised = TRUE]
         /\ UNCHANGED <<sid_idx, per_account, pending, qty_of, total, failed>>

\* Lines 145, 128-133: get_value_for_account(sid) up to the provider's answer r.
Aggregate(r) ==
    /\ pc = "account"
    /\ LET v == try_csgobackpack_value(r)
           tr == [NoTrace EXCEPT !.agg = r, !.agg_calls = 1]
       IN IF AcceptAggregate(v)
          THEN Finish(round2(v.v), tr)
          ELSE /\ pc' = "inventory"
               /\ trace' = tr
               /\ UNCHANGED <<sid_idx, per_account, pending, qty_of, total, failed>>
    /\ UNCHANGED <<today, values_csv, accounts_csv, runs, requests>>
    /\ UNCHANGED <<parseVars, countVars>>

\* Lines 114-116: get_inventory answers r; counts, total = 0.0.
FetchInventory(r) ==
    /\ pc = "inventory"
    /\ LET tr == [trace EXCEPT !.inv_calls = @ + 1]
       IN IF Raises(r) THEN Raise(r, tr)
          ELSE LET c == get_item_counts(r.body)
               IN IF c = <<>>
                  THEN Finish(round2(0), tr)
                  ELSE /\ pending' = DictKeys(c)
                       /\ qty_of' = c
                       /\ total' = 0
                       /\ trace' = tr
                       /\ pc' = "price"
                       /\ UNCHANGED <<sid_idx, per_account, failed>>
    /\ UNCHANGED <<today, values_csv, accounts_csv, runs, requests>>
    /\ UNCHANGED <<parseVars, countVars>>

\* Lines 117-125: one turn of the loop, priceoverview(name) answering r.
FetchPrice(r) ==
    /\ pc = "price"
    /\ LET name == Head(pending)
           qty == DictGet(qty_of, name, 0)
       IN /\ requests' = IF r.kind # "ConnectionError" /\ r.status # 429
                         THEN [requests EXCEPT ![name] = @ + 1]
                         ELSE requests
          /\ IF Raises(r)
             THEN Raise(r, [trace EXCEPT !.plog =
                        Append(@, [name |-> name, answer |-> r, price |-> 0, qty |-> qty])])
             ELSE LET price == priceoverview(r)
                      tr == [trace EXCEPT !.plog =
                        Append(@, [name |-> name, answer |-> r, price |-> price, qty |-> qty])]
                  IN IF Tail(pending) = <<>>
                     THEN Finish(round2(total + price * qty), tr)
                     ELSE /\ total' = total + price * qty
                          /\ pending' = Tail(pending)
                          /\ trace' = tr
                          /\ UNCHANGED <<pc, sid_idx, per_account, qty_of, failed>>
    /\ UNCHANGED <<today, values_csv, accounts_csv, runs>>
    /\ UNCHANGED <<parseVars, countVars>>

\* Lines 154-157
WriteAccounts ==
    /\ pc = "write_accounts"
    /\ accounts_csv' = AppendRows(accounts_csv, AccountRows(today, per_account))
    /\ pc' = "write_total"
    /\ UNCHANGED <<today, sid_idx, per_account, pending, qty_of, total,
                   values_csv, runs, trace, requests, failed>>
    /\ UNCHANGED <<parseVars, countVars>>

\* Lines 151, 160-163
WriteTotal ==
    /\ pc = "write_total"
    /\ values_csv' = AppendRows(values_csv, <<TotalRow(today, SumValues(per_account))>>)
    /\ pc' = "done"
    /\ UNCHANGED <<today, sid_idx, per_account, pending, qty_of, total,
                   accounts_csv, runs, trace, requests, failed>>
    /\ UNCHANGED <<parseVars, countVars>>

\* The script is started again (the next scheduled run): the files stay,
\* the memory of the process is new.
Rerun ==
    /\ pc \in {"done", "crashed"}
    /\ runs < MaxRuns
    /\ runs' = runs + 1
    /\ pc' = "start"
    /\ sid_idx' = 1
    /\ per_account' = <<>>
    /\ pending' = <<>>
    /\ qty_of' = <<>>
    /\ total' = 0
    /\ trace' = NoTrace
    /\ requests' = [n \in ItemNames |-> 0]
    /\ failed' = {}
    /\ UNCHANGED <<today, values_csv, accounts_csv>>
    /\ UNCHANGED <<parseVars, countVars>>

\* The process is killed.  Between ensure_csv_headers and line 154 nothing is
\* written; inside the `with` of lines 154-157 the rows written so far sit in the file object's
\* buffer and any number of them, from none to all, may have reached the file.
Crash ==
    /\ pc \in {"start", "account", "inventory", "price", "write_accounts", "write_total"}
    /\ pc' = "crashed"
    /\ CASE pc = "write_accounts" ->
               /\ \E k \in 0..Len(per_account) :
                     accounts_csv' = AppendRows(accounts_csv,
                                        SubSeq(AccountRows(today, per_account), 1, k))
               /\ values_csv' = values_csv
         [] pc = "start" ->
               \* inside ensure_csv_headers: a file that did not exist may have
               \* been created, with its header or still empty
               \/ UNCHANGED <<values_csv, accounts_csv>>
               \/ /\ ~ values_csv.exists
                  /\ values_csv' = [exists |-> TRUE, rows |-> <<>>]
                  /\ accounts_csv' = accounts_csv
               \/ /\ values_csv' = EnsureHeader(values_csv)
                  /\ accounts_csv' \in {accounts_csv, EnsureHeader(accounts_csv)}
                                        \cup IF accounts_csv.exists THEN {}
                                             ELSE {[exists |-> TRUE, rows |-> <<>>]}
         [] OTHER -> UNCHANGED <<values_csv, accounts_csv>>
    /\ UNCHANGED <<today, sid_idx, per_account, pending, qty_of, total,
                   runs, trace, requests, failed>>
    /\ UNCHANGED <<parseVars, countVars>>

\* The pure functions are not running.
ParseIdle == p_text = None /\ p_raw = None /\ p_result = Zero
CountsIdle == inv_json = NoBody /\ counts = <<>>
MainIdle ==
    /\ today = 1 /\ sid_idx = 1 /\ per_account = <<>>
    /\ pending = <<>> /\ qty_of = <<>> /\ total = 0
    /\ values_csv = NoFile /\ accounts_csv = NoFile
    /\ runs = 1 /\ trace = NoTrace
    /\ requests = [n \in ItemNames |-> 0] /\ failed = {}

\* The script is started for the first time: no history file exists.
Init == pc = "start" /\ MainIdle /\ ParseIdle /\ CountsIdle

Main(aggs, invs, prices) ==
    \/ Start
    \/ \E r \in aggs : Aggregate(r)
    \/ \E r \in invs : FetchInventory(r)
    \/ \E r \in prices : FetchPrice(r)
    \/ WriteAccounts
    \/ WriteTotal

\* One run of the script.
Next == Main(AggAnswers, InvAnswers, PriceAnswers)
Spec == Init /\ [][Next]_vars

\* The script run again and again.
NextHistory == Main(AggAnswersSmall, InvAnswersSmall, PriceAnswersSmall) \/ Rerun
SpecHistory == Init /\ [][NextHistory]_vars

\* The same, with a process that may be killed at any point.
NextCrash == NextHistory \/ Crash
SpecCrash == Init /\ [][NextCrash]_vars

(***************************************************************************)
(* parse_price and get_item_counts called on their own                     *)
(***************************************************************************)
MaxTextLen == 4
Alphabet == {"0", "1", "U+0663", ".", ",", " ", "$"}

Text_Empty == <<>>
Text_Dollar == <<"$", "1", ".", "2", "3">>
Text_Euro == <<"1", ",", "2", "3", "€">>
Text_Thousands == <<"1", ".", "2", "3", "4", ",", "5", "6">>
Text_Garbage == <<"g", "a", "r", "b", "a", "g", "e">>
Text_Rouble == <<"1", "NNBSP", "2", "3", "4", ",", "5", "6", " ", "₽">>
Text_US == <<"1", ",", "2", "3", "4", ".", "5", "6">>
Text_ArabicIndic == <<"U+0663", ",", "U+0665", "U+0660">>
Text_Mixed == <<"1", "U+0663">>

ParseInputs ==
    SeqsUpTo(Alphabet, MaxTextLen) \cup PriceTexts
        \cup {None, Text_Dollar, Text_Euro, Text_Thousands, Text_Garbage,
              Text_Rouble, Text_US, Text_ArabicIndic, Text_Mixed}

InitParse ==
    /\ pc = "parse_price"
    /\ p_text \in ParseInputs
    /\ p_raw = None
    /\ p_result = Zero
    /\ MainIdle /\ CountsIdle

\* parse_price(p_text)
ParsePrice ==
    /\ pc = "parse_price"
    /\ p_raw' = Token(p_text)
    /\ p_result' = parse_price(p_text)
    /\ pc' = "parsed"
    /\ UNCHANGED <<p_text, countVars, today, sid_idx, per_account, pending, qty_of,
                   total, values_csv, accounts_csv, runs, trace, requests, failed>>

SpecParse == InitParse /\ [][ParsePrice]_vars

MaxDescs == 2
MaxAssets == 2
ClassIds == {Absent, "c1"}
InstanceIds == {Absent, "1"}
MarketNames == {Absent, "", "A", "B"}

DescSeqs ==
    SeqsUpTo({Desc(c, i, n) : c \in ClassIds, i \in InstanceIds, n \in MarketNames}
                 \cup {ForeignDesc},
             MaxDescs)
AssetSeqs == SeqsUpTo({Asset(c, i) : c \in ClassIds, i \in InstanceIds}, MaxAssets)

InitCounts ==
    /\ pc = "get_item_counts"
    /\ \/ inv_json \in {ExampleInventory, SingleInventory, UnnamedInventory,
                        EmptyDescInventory, NoneClassInventory}
       \/ \E ds \in DescSeqs, as \in AssetSeqs : inv_json = Inventory(ds, as)
    /\ counts = <<>>
    /\ MainIdle /\ ParseIdle

\* get_item_counts(inv_json)
GetItemCounts ==
    /\ pc = "get_item_counts"
    /\ counts' = get_item_counts(inv_json)
    /\ pc' = "counted"
    /\ UNCHANGED <<inv_json, parseVars, today, sid_idx, per_account, pending, qty_of,
                   total, values_csv, accounts_csv, runs, trace, requests, failed>>

SpecCounts == InitCounts /\ [][GetItemCounts]_vars

(***************************************************************************)
(* The properties                                                          *)
(***************************************************************************)
\* The description an asset resolves to, as the contract of the resolver
\* words it: the last description with the asset's (classid, instanceid),
\* instanceid defaulting to "0", and only when there is none the first with
\* its classid, else none.
ResolvedName(inv, a) ==
    LET ds == inv.descriptions
        exact == {j \in 1..Len(ds) :
                    ClassOf(ds[j]) = ClassOf(a) /\ InstanceOf(ds[j]) = InstanceOf(a)}
        class == {j \in 1..Len(ds) : ClassOf(ds[j]) = ClassOf(a)}
    IN IF exact # {} THEN ds[CHOOSE j \in exact : \A k \in exact : k <= j].market_hash_name
       ELSE IF class # {} THEN ds[CHOOSE j \in class : \A k \in class : j <= k].market_hash_name
       ELSE Absent

Named(n) == n # Absent /\ n # ""

RECURSIVE SumQty(_)
SumQty(c) == IF c = <<>> THEN 0 ELSE c[1][2] + SumQty(Tail(c))

\* C8: get_item_counts returns, for every market name, the number of assets
\* whose resolved description carries that name; an asset that resolves to no
\* description or to one with no or an empty market name is counted nowhere;
\* every quantity is >= 1 and the quantities sum to the number of assets that
\* resolved to a named description; the example gives {A: 2, B: 1}.
\* get_item_counts breaks it on a description without a key: line 76 tests
\* the truth of the description found, not whether one was found, so the
\* asset of EmptyDescInventory, whose key holds {}, is counted under A.
C8_ItemCounts ==
    pc = "counted" =>
        LET as == inv_json.assets
            withName(n) == {i \in 1..Len(as) : ResolvedName(inv_json, as[i]) = n}
            names == {ResolvedName(inv_json, as[i]) : i \in 1..Len(as)}
                        \cup {counts[i][1] : i \in 1..Len(counts)}
        IN /\ \A i, j \in 1..Len(counts) : counts[i][1] = counts[j][1] => i = j
           /\ \A i \in 1..Len(counts) : Named(counts[i][1]) /\ counts[i][2] >= 1
           /\ \A n \in names :
                IF Named(n) THEN DictGet(counts, n, 0) = Cardinality(withName(n))
                ELSE ~ DictHas(counts, n)
           /\ SumQty(counts) =
                Cardinality({i \in 1..Len(as) : Named(ResolvedName(inv_json, as[i]))})
           /\ inv_json = ExampleInventory => counts = <<<<"A", 2>>, <<"B", 1>>>>
           /\ inv_json = UnnamedInventory => counts = <<>>

\* The value of a numeric token as the contract of the parser words it: with
\* a ',' in the token the ',' is the decimal separator (and a '.' groups
\* thousands), otherwise the '.' is; a token with two decimal separators is no
\* number and gives 0.
ReadToken(tok) ==
    LET sep == IF Contains(tok, ",") THEN "," ELSE "."
        at == {i \in 1..Len(tok) : tok[i] = sep}
        digits == SelectSeq(tok, IsDigit)
    IN IF Cardinality(at) > 1 THEN Zero
       ELSE IF at = {} THEN Dec(DigitsVal(digits), 0)
       ELSE LET i == CHOOSE k \in at : TRUE
            IN Dec(DigitsVal(digits), Cardinality({k \in (i + 1)..Len(tok) : IsDigit(tok[k])}))

\* C9: parse_price returns a non-negative decimal for every input, 0 for an
\* empty or absent input and for a text with no digit; otherwise it reads the
\* first numeric token, '.' grouping thousands and ',' the decimal separator
\* when both occur, ',' the decimal separator when it alone occurs, the token
\* as written otherwise; parse("") = 0, parse("$1.23") = 1.23,
\* parse("1,23€") = 1.23, parse("1.234,56") = 1234.56, parse("garbage") = 0.
C9_ParsePrice ==
    pc = "parsed" =>
        LET s == IF p_text = None THEN <<>> ELSE StripSpaces(p_text)
            digitAt == {i \in 1..Len(s) : IsDigit(s[i])}
        IN /\ p_result.m >= 0 /\ p_result.e >= 0
           /\ digitAt = {} => p_raw = None /\ p_result = Zero
           /\ digitAt # {} =>
                LET first == CHOOSE i \in digitAt : \A k \in digitAt : i <= k
                IN /\ p_raw # None /\ Len(p_raw) >= 1
                   /\ p_raw = SubSeq(s, first, first + Len(p_raw) - 1)
                   /\ p_result = ReadToken(p_raw)
           /\ p_text = Text_Empty => p_result = Zero
           /\ p_text = Text_Dollar => p_result = Dec(123, 2)
           /\ p_text = Text_Euro => p_result = Dec(123, 2)
           /\ p_text = Text_Thousands => p_result = Dec(123456, 2)
           /\ p_text = Text_Garbage => p_result = Zero

\* "1.234,56" has been parsed to 1234.56.
C9_Witness ==
    /\ pc = "parsed"
    /\ p_text = Text_Thousands
    /\ p_raw = Text_Thousands
    /\ p_result = [m |-> 123456, e |-> 2]

(***************************************************************************)
(* The run: what the last resolved account's answers were (trace) against  *)
(* the value recorded for it.                                              *)
(***************************************************************************)
LastVal == per_account[Len(per_account)][2]

\* The aggregate provider gave a positive value / gave no usable value.
AggPositive(r) == r.kind = "value" /\ r.value > 0
AggFailed(r) == Raises(r) \/ r.kind = "null" \/ (r.kind = "value" /\ r.value <= 0)

RECURSIVE SumLog(_)
\* The sum of unit price x quantity over the items priced (eighths).
SumLog(plog) ==
    IF plog = <<>> THEN 0 ELSE plog[1].price * plog[1].qty + SumLog(Tail(plog))

\* r hundredths is k eighths rounded to 2 decimals, a tie going to the even
\* hundredth.
NearestEven(k, r) ==
    \/ 2 * r = 25 * k
    \/ /\ 2 * r - 25 * k \in {-1, 1}
       /\ r % 2 = 0


IsPrefix(s, t) == Len(s) <= Len(t) /\ SubSeq(t, 1, Len(s)) = s

\* C1, as claimed: the per-item fallback (the inventory fetch) starts only
\* after two aggregate providers, A then B, were asked.
C1_Original == trace.inv_calls > 0 => trace.agg_calls = 2

\* C1, amended: one aggregate provider is asked, once, then the per-item
\* fallback.  A positive value of the provider is returned rounded to 2
\* decimals, with no inventory fetch and no price request for that account;
\* otherwise the fallback runs and, unless it raises, its rounded sum is
\* returned.
C1_Chain ==
    /\ trace.inv_calls > 0 \/ trace.plog # <<>> =>
            trace.agg_calls = 1 /\ ~ AggPositive(trace.agg)
    /\ trace.done =>
        /\ trace.agg_calls = 1
        /\ AggPositive(trace.agg) =>
              /\ trace.inv_calls = 0 /\ trace.plog = <<>>
              /\ NearestEven(trace.agg.value, LastVal)
        /\ ~ AggPositive(trace.agg) =>
              /\ trace.inv_calls = 1
              /\ ~ trace.raised => NearestEven(SumLog(trace.plog), LastVal)

\* A positive aggregate value was returned for one account and the fallback
\* priced items for another.
C1_Witness ==
    /\ pc = "done"
    /\ per_account[1][2] = 38
    /\ trace.done /\ ~ AggPositive(trace.agg) /\ Len(trace.plog) = 2 /\ LastVal > 0

\* C2: a failed call of the aggregate provider (an exception, a bad status,
\* a malformed body, no value, a value <= 0) neither ends the account's
\* resolution in an error nor gives the account's value: the per-item
\* fallback is entered, and the value recorded is the fallback's.
C2_AggregateFailure ==
    (trace.agg_calls = 1 /\ AggFailed(trace.agg)) =>
        /\ pc # "aborted"
        /\ pc = "inventory" \/ trace.inv_calls = 1
        /\ pc = "inventory" => ~ trace.raised /\ ~ trace.done
        /\ trace.done /\ ~ trace.raised => NearestEven(SumLog(trace.plog), LastVal)

\* The provider's request raised and the fallback valued the account.
C2_Witness ==
    /\ trace.done /\ ~ trace.raised
    /\ trace.agg = ConnectionError
    /\ trace.inv_calls = 1
    /\ LastVal > 0

\* C3: a lookup answered with HTTP 429 is asked again until another answer
\* comes, so no lookup of an item ends on a 429 answer, and a 429 is never
\* resolved to the price 0 of the item.  priceoverview breaks it: line 91
\* returns 0.0 for every status other than 200, 429 included, and
\* compute_value_via_market asks once per item.
C3_Original == \A i \in 1..Len(trace.plog) : trace.plog[i].answer.status # 429

\* C4: in one run, over all the accounts, the price endpoint gives at most
\* one answer other than 429 per item name, a later lookup of the name being
\* served from the cache of the run.  compute_value_via_market breaks it: it
\* keeps no cache, so each account that owns the item asks for it again.
C4_Original == \A n \in ItemNames : requests[n] <= 1

\* The value of an account, from the answers given to it alone.
ExpectedValue(tr) ==
    IF tr.raised THEN 0
    ELSE IF AggPositive(tr.agg) THEN round2(tr.agg.value)
    ELSE round2(SumLog(tr.plog))

\* C5: when the resolution of an account raises, the run does not end: 0 is
\* recorded for that account and for no other reason than its own answers,
\* every account gets its entry, in the order of the configuration, with the
\* value its own answers give, and the run appends the per-account rows and
\* the global row.
C5_AccountFailure ==
    /\ pc # "aborted"
    /\ \A i \in 1..Len(per_account) :
          /\ per_account[i][1] = STEAM_IDS[i]
          /\ per_account[i][1] \in failed => per_account[i][2] = 0
    /\ trace.done =>
          /\ LastVal = ExpectedValue(trace)
          /\ trace.raised <=> STEAM_IDS[Len(per_account)] \in failed
    /\ trace.raised => trace.done
    /\ pc \in {"write_accounts", "write_total", "done"} => Len(per_account) = NumAccounts
    /\ pc = "done" =>
          /\ accounts_csv.rows = <<HeaderRow>> \o AccountRows(today, per_account)
          /\ values_csv.rows = <<HeaderRow, TotalRow(today, SumValues(per_account))>>

\* The first account failed as a whole, the last one was valued, and the run
\* wrote its rows.
C5_Witness ==
    /\ pc = "done"
    /\ 1 \in failed /\ per_account[1][2] = 0
    /\ NumAccounts \notin failed /\ per_account[NumAccounts][2] > 0
    /\ Len(accounts_csv.rows) = 1 + NumAccounts

\* C10, as claimed: the per-item valuation is the sum of unit price x
\* quantity rounded to 2 decimals half up, once, on the sum.
C10_Original ==
    trace.done /\ ~ trace.raised /\ trace.inv_calls = 1 =>
        LastVal = RoundHalfUp2(SumLog(trace.plog))

\* C10, amended: the per-item valuation is the sum of unit price x quantity,
\* kept unrounded while the items are priced and rounded once, on the sum, to
\* the nearest hundredth, an exact tie going to the even hundredth (0.125
\* gives 0.12); an item priced 0 adds nothing.
C10_Valuation ==
    /\ pc = "price" => total = SumLog(trace.plog)
    /\ trace.done /\ ~ trace.raised /\ trace.inv_calls = 1 =>
          /\ NearestEven(SumLog(trace.plog), LastVal)
          /\ (\A i \in 1..Len(trace.plog) : trace.plog[i].price = 0) => LastVal = 0

\* Two units at 0.125 and one at 1.5 gave 1.75 (0.12 + 0.12 + 1.5 would be
\* 1.74), for an account valued by the fallback.
C10_Witness ==
    /\ trace.done /\ ~ trace.raised /\ Len(trace.plog) = 2
    /\ trace.plog[1].price = 1 /\ trace.plog[1].qty = 2
    /\ trace.plog[2].price = 12 /\ trace.plog[2].qty = 1
    /\ LastVal = 175

\* The files hold a header and the rows of the runs so far: of the completed
\* runs and, once lines 154-157 are through, of the run under way.
RowCounts ==
    LET completed == IF pc = "done" THEN runs ELSE runs - 1
        written == IF pc \in {"write_total", "done"} THEN runs ELSE runs - 1
        headerFirst(rows) ==
            /\ rows[1] = HeaderRow
            /\ \A i \in 2..Len(rows) : rows[i].kind = "row"
    IN IF pc = "start" /\ runs = 1
       THEN values_csv = NoFile /\ accounts_csv = NoFile
       ELSE /\ values_csv.exists /\ accounts_csv.exists
            /\ Len(values_csv.rows) = 1 + completed
            /\ Len(accounts_csv.rows) = 1 + written * NumAccounts
            /\ headerFirst(values_csv.rows)
            /\ headerFirst(accounts_csv.rows)

\* C6: n completed runs from no files leave 1 header + n rows in values.csv
\* and 1 header + n x (number of accounts) rows in accounts.csv, the header
\* first and only there, and no step changes or removes a row that is
\* already in a file.
C6_History ==
    /\ RowCounts
    /\ [][/\ RowCounts'
          /\ IsPrefix(values_csv.rows, values_csv'.rows)
          /\ IsPrefix(accounts_csv.rows, accounts_csv'.rows)]_vars

\* The second run has completed.
C6_Witness ==
    /\ pc = "done" /\ runs = 2
    /\ Len(values_csv.rows) = 3
    /\ Len(accounts_csv.rows) = 1 + 2 * NumAccounts
    /\ values_csv.rows[3].value > 0

\* C7, as claimed: after a crash every account resolved before it has its
\* row of this run in accounts.csv.
C7_Original ==
    pc = "crashed" =>
        \A i \in 1..Len(per_account) :
            \E j \in 1..Len(accounts_csv.rows) :
                accounts_csv.rows[j] = AccountRow(today, per_account[i][1], per_account[i][2])

\* C7, amended: the files are only appended to, so the rows of earlier runs
\* survive a crash; but no row of a run is written while its accounts are
\* being resolved, so a crash in that phase leaves both files as they were,
\* without a row for the accounts already resolved; a crash while the
\* per-account rows are written leaves values.csv as it was.
C7_Crash ==
    [][/\ IsPrefix(values_csv.rows, values_csv'.rows)
       /\ IsPrefix(accounts_csv.rows, accounts_csv'.rows)
       /\ pc \in {"account", "inventory", "price"} =>
             values_csv' = values_csv /\ accounts_csv' = accounts_csv
       /\ pc' = "crashed" /\ pc # "start" => values_csv' = values_csv]_vars

\* The process was killed in its second run after one account was resolved:
\* the files hold the first run's rows and nothing of the second.
C7_Witness ==
    /\ pc = "crashed" /\ runs = 2
    /\ Len(per_account) = 1
    /\ Len(values_csv.rows) = 2
    /\ Len(accounts_csv.rows) = 1 + NumAccounts

====
